---- MODULE Spec2Model ----
(***************************************************************************)
(* The host offload provider (host-offload-provider/src/lib.rs): a table   *)
(* of byte buffers and matrix shapes keyed by integer handles, with the    *)
(* f32 matrix multiply built on it, and the guest driver                   *)
(* (wasm-module/src/main.rs) that calls it.                                *)
(*                                                                         *)
(* The provider is built for wasm32-unknown-unknown in the release profile *)
(* (runner/src/main.rs:30): usize is as wide as u32, integer arithmetic    *)
(* wraps, `as` casts truncate, and a panic traps the instance.  Integer    *)
(* widths are scaled down (U32Mod, U64Mod, HandleMod stand for 2^32, 2^64  *)
(* and the range of the handle counter); byte values and the f32 encoding  *)
(* are not scaled.                                                         *)
(***************************************************************************)
EXTENDS Integers, Sequences, FiniteSets, TLC

VARIABLES buffers, matrix_dims, next_handle, fault, issued, last,
          pc, handle_a, handle_b, handle_c, run_result,
          lock, callers

tvars == <<buffers, matrix_dims, next_handle, fault, issued, last>>
dvars == <<pc, handle_a, handle_b, handle_c, run_result>>
lvars == <<lock, callers>>
vars == <<buffers, matrix_dims, next_handle, fault, issued, last,
          pc, handle_a, handle_b, handle_c, run_result, lock, callers>>

-----------------------------------------------------------------------------
(* Widths and bounds *)

\* u32 values are taken modulo U32Mod (stands for 2^32).
U32Mod == 256
\* usize on wasm32 is 32 bits wide, like u32.
UsizeMod == U32Mod
\* u64 values are taken modulo U64Mod (stands for 2^64).
U64Mod == 65536
\* The handle counter is taken modulo HandleMod (stands for the range of Handle).
HandleMod == 5
\* The callers of the table specification keep at most MaxLive buffers
\* allocated at a time.
MaxLive == 2

U32Max == U32Mod - 1
UsizeMax == UsizeMod - 1
IsizeMax == (UsizeMod \div 2) - 1
U64Max == U64Mod - 1
HandleMax == HandleMod - 1

\* std::mem::size_of::<f32>()
SizeOfF32 == 4
\* The hidden bit of a normal f32's significand, and the bound of the
\* 24-bit significand.
F32Hidden == 2^23
F32Exact == 2^24

-----------------------------------------------------------------------------
(* Maps and byte sequences *)

Insert(map, k, v) == [x \in (DOMAIN map) \cup {k} |-> IF x = k THEN v ELSE map[x]]
Remove(map, k) == [x \in (DOMAIN map) \ {k} |-> map[x]]
EmptyMap == [x \in {} |-> 0]

Zeros(n) == [i \in 1..n |-> 0]

\* A copy that drops what the buffer held after the copied bytes.
CopyIn_truncates(buffer, offset, data) == SubSeq(buffer, 1, offset) \o data

\* buffer[offset..end].copy_from_slice(data), for offset <= end <= Len(buffer)
CopyIn(buffer, offset, data) ==
    [i \in 1..Len(buffer) |->
        IF i > offset /\ i <= offset + Len(data) THEN data[i - offset] ELSE buffer[i]]

\* A slice of the right length taken from the start of the buffer.
Slice_from_start(buffer, offset, end) == [i \in 1..(end - offset) |-> buffer[i]]

\* buffer[offset..end].to_vec(), for offset <= end <= Len(buffer)
Slice(buffer, offset, end) == [i \in 1..(end - offset) |-> buffer[offset + i]]

-----------------------------------------------------------------------------
(* f32.  A float is its three bit fields: the sign s, the biased exponent  *)
(* e (0..255) and the fraction m (0..2^23 - 1).  Its value is              *)
(* (-1)^s * F32Sig * 2^(F32Exp - 150) when e < 255; e = 255 is an infinity *)
(* (m = 0) or a NaN (m # 0).  Multiplication and addition round to nearest,*)
(* ties to even, as the f32 operators of the build do.                     *)

RECURSIVE Log2(_)
Log2(n) == IF n <= 1 THEN 0 ELSE 1 + Log2(n \div 2)

\* The number of bits of n.
BitLen(n) == IF n = 0 THEN 0 ELSE Log2(n) + 1

F32Zero(s) == [s |-> s, e |-> 0, m |-> 0]
F32Inf(s) == [s |-> s, e |-> 255, m |-> 0]
\* The NaN with only the quiet bit set.
F32QNaN == [s |-> 0, e |-> 255, m |-> 2^22]

IsNaN(f) == f.e = 255 /\ f.m # 0
IsInf(f) == f.e = 255 /\ f.m = 0
IsZero(f) == f.e = 0 /\ f.m = 0

\* The significand and exponent of a finite float (subnormals have e = 0).
F32Sig(f) == IF f.e = 0 THEN f.m ELSE F32Hidden + f.m
F32Exp(f) == IF f.e = 0 THEN 1 ELSE f.e

\* The float literal v.0, for an integer 0 <= v < 2^24.
F32Of(v) ==
    IF v = 0 THEN F32Zero(0)
    ELSE LET l == Log2(v)
         IN [s |-> 0, e |-> 127 + l, m |-> (v - 2^l) * 2^(23 - l)]

\* f32::to_ne_bytes (little-endian on wasm32).
F32ToBytes(f) ==
    <<f.m % 256, (f.m \div 256) % 256, (f.e % 2) * 128 + (f.m \div 65536),
      f.s * 128 + (f.e \div 2)>>

\* The bytes of the float literal v.0.
F32Bytes(v) == F32ToBytes(F32Of(v))

\* The f32 stored in the four bytes b (little-endian).
F32Value(b) ==
    [s |-> b[4] \div 128,
     e |-> (b[4] % 128) * 2 + (b[3] \div 128),
     m |-> (b[3] % 128) * 65536 + b[2] * 256 + b[1]]

\* (hi * 2^24 + lo) / 2^sh rounded to nearest, ties to even, for sh >= 1 and
\* hi * 2^24 + lo < 2^50.
RoundShift(hi, lo, sh) ==
    IF sh > 52 THEN 0
    ELSE IF sh <= 24
         THEN LET q == hi * 2^(24 - sh) + (lo \div 2^sh)
                  r == lo % 2^sh
                  half == 2^(sh - 1)
              IN q + (IF r > half \/ (r = half /\ q % 2 = 1) THEN 1 ELSE 0)
         ELSE LET d == sh - 24
                  q == hi \div 2^d
                  r == hi % 2^d
                  half == 2^(d - 1)
              IN q + (IF r > half \/ (r = half /\ (lo > 0 \/ q % 2 = 1)) THEN 1 ELSE 0)

\* The float nearest to (-1)^s * (hi * 2^24 + lo) * 2^ex, with lo < 2^24.
F32Round(s, hi, lo, ex) ==
    IF hi = 0 /\ lo = 0 THEN F32Zero(s)
    ELSE LET len == IF hi > 0 THEN 24 + BitLen(hi) ELSE BitLen(lo)
             sh == IF ex + len - 24 < -149 THEN -149 - ex ELSE len - 24
             sig == IF sh <= 0 THEN lo * 2^(-sh) ELSE RoundShift(hi, lo, sh)
             e == ex + sh + 150
         IN IF sig = 0 THEN F32Zero(s)
            ELSE IF sig < F32Hidden THEN [s |-> s, e |-> 0, m |-> sig]
            ELSE IF sig = F32Exact
                 THEN IF e + 1 >= 255 THEN F32Inf(s) ELSE [s |-> s, e |-> e + 1, m |-> 0]
            ELSE IF e >= 255 THEN F32Inf(s)
            ELSE [s |-> s, e |-> e, m |-> sig - F32Hidden]

\* x * y on f32.  A NaN result is F32QNaN here; the bits the build gives it
\* are chosen in NaNOutcomes.
F32Mul(x, y) ==
    LET s == (x.s + y.s) % 2
    IN IF IsNaN(x) \/ IsNaN(y) THEN F32QNaN
       ELSE IF IsInf(x) \/ IsInf(y)
            THEN IF IsZero(x) \/ IsZero(y) THEN F32QNaN ELSE F32Inf(s)
       ELSE LET xh == F32Sig(x) \div 4096
                xl == F32Sig(x) % 4096
                yh == F32Sig(y) \div 4096
                yl == F32Sig(y) % 4096
                mid == xh * yl + xl * yh
                t == (mid % 4096) * 4096 + xl * yl
            IN F32Round(s, xh * yh + (mid \div 4096) + (t \div F32Exact),
                        t % F32Exact, F32Exp(x) + F32Exp(y) - 300)

\* x + y on f32.
F32Add(x, y) ==
    IF IsNaN(x) \/ IsNaN(y) THEN F32QNaN
    ELSE IF IsInf(x) THEN (IF IsInf(y) /\ x.s # y.s THEN F32QNaN ELSE x)
    ELSE IF IsInf(y) THEN y
    ELSE IF IsZero(x) /\ IsZero(y) THEN (IF x.s = y.s THEN x ELSE F32Zero(0))
    ELSE IF IsZero(x) THEN y
    ELSE IF IsZero(y) THEN x
    ELSE LET xbig == \/ F32Exp(x) > F32Exp(y)
                     \/ (F32Exp(x) = F32Exp(y) /\ F32Sig(x) >= F32Sig(y))
             b == IF xbig THEN x ELSE y
             a == IF xbig THEN y ELSE x
             d == F32Exp(b) - F32Exp(a)
         IN IF d > 25 THEN b
            ELSE LET hi == IF d <= 24 THEN F32Sig(b) \div 2^(24 - d)
                                      ELSE F32Sig(b) * 2^(d - 24)
                     lo == IF d <= 24 THEN (F32Sig(b) % 2^(24 - d)) * 2^d ELSE 0
                     t == IF a.s = b.s THEN lo + F32Sig(a) ELSE lo - F32Sig(a)
                 IN IF a.s # b.s /\ d = 0 /\ F32Sig(a) = F32Sig(b) THEN F32Zero(0)
                    ELSE IF t < 0
                         THEN F32Round(b.s, hi - 1, t + F32Exact, F32Exp(a) - 150)
                    ELSE F32Round(b.s, hi + (t \div F32Exact), t % F32Exact,
                                  F32Exp(a) - 150)

\* x == y on f32: a NaN equals nothing, and the two zeros are equal.
F32Eq(x, y) == ~IsNaN(x) /\ ~IsNaN(y) /\ (x = y \/ (IsZero(x) /\ IsZero(y)))

\* Vec<f32> == Vec<f32>
VecEq(xs, ys) == Len(xs) = Len(ys) /\ \A n \in 1..Len(xs) : F32Eq(xs[n], ys[n])

\* bytes.as_ptr() as usize % align_of::<f32>() == 0.  The bytes are those of a
\* Vec<u8>: the allocator of the build aligns every heap block to 8 bytes,
\* and an empty Vec owns no block, its pointer being the dangling address 1.
PtrAligned(bytes) == Len(bytes) # 0

\* bytes_to_f32_slice: None unless aligned and a multiple of four bytes long.
bytes_to_f32_slice(bytes) ==
    IF ~PtrAligned(bytes) THEN [some |-> FALSE, data |-> <<>>]
    ELSE IF Len(bytes) % SizeOfF32 # 0 THEN [some |-> FALSE, data |-> <<>>]
    ELSE [some |-> TRUE,
          data |-> [n \in 1..(Len(bytes) \div SizeOfF32) |->
                        F32Value(SubSeq(bytes, SizeOfF32 * (n - 1) + 1, SizeOfF32 * n))]]

\* One byte per float, as a cast of each float's bits to u8 would give.
f32_slice_to_bytes_narrow(floats) == [n \in 1..Len(floats) |-> F32ToBytes(floats[n])[1]]

RECURSIVE f32_slice_to_bytes(_)
f32_slice_to_bytes(floats) ==
    IF floats = <<>> THEN <<>>
    ELSE F32ToBytes(Head(floats)) \o f32_slice_to_bytes(Tail(floats))

-----------------------------------------------------------------------------
(* nalgebra::DMatrix<f32>: a matrix is a function on (row, column), both   *)
(* counted from 0.                                                         *)

\* DMatrix::from_row_slice(rows, cols, data): data is read row by row.
from_row_slice(rows, cols, data) ==
    [i \in 0..(rows - 1), j \in 0..(cols - 1) |-> data[i * cols + j + 1]]

\* Entry (i, j) of the product, accumulated over the inner index from 0 to k:
\* the first term is stored, each later term is added to what is there.
RECURSIVE DotFrom(_, _, _, _, _)
DotFrom(A, B, i, j, k) ==
    IF k < 0 THEN F32Zero(0)
    ELSE IF k = 0 THEN F32Mul(A[i, 0], B[0, j])
    ELSE F32Add(F32Mul(A[i, k], B[k, j]), DotFrom(A, B, i, j, k - 1))

\* matrix_a * matrix_b, for matrix_a of rows x inner and matrix_b of inner x cols
MatMul(A, B, rows, inner, cols) ==
    [i \in 0..(rows - 1), j \in 0..(cols - 1) |-> DotFrom(A, B, i, j, inner - 1)]

\* Matrix::as_slice(): the storage of a DMatrix, which is column by column.
as_slice(M, rows, cols) ==
    [n \in 1..(rows * cols) |-> M[(n - 1) % rows, (n - 1) \div rows]]

-----------------------------------------------------------------------------
(* The table: HostState behind HOST_STATE, and the calls of Guest.  Every  *)
(* call records itself and what it returned in `last` (and, for free, the  *)
(* shape it removed, which the code drops).  A panic traps the instance:   *)
(* `fault` keeps its cause and no later call runs.  `issued` collects the  *)
(* handles returned so far.                                                *)

NoCall ==
    [op |-> "none", h |-> 0, h2 |-> 0, off |-> 0, len |-> 0, data |-> <<>>,
     rows |-> 0, cols |-> 0, res |-> "none", rh |-> 0, rbytes |-> <<>>, rdims |-> <<>>,
     removed |-> <<>>]

\* HostState::new
HostStateNew ==
    /\ buffers = EmptyMap
    /\ matrix_dims = EmptyMap
    /\ next_handle = 1
    /\ fault = "none"
    /\ issued = {}
    /\ last = NoCall

\* new_handle without its overflow check.
new_handle_unchecked(nh) ==
    [handle |-> nh, next |-> (nh + 1) % HandleMod, panic |-> FALSE]

\* new_handle that hands out the lowest handle without a live buffer, as a
\* free list would.
new_handle_reuses_freed(nh) ==
    LET g == CHOOSE x \in 1..HandleMod :
                 x \notin DOMAIN buffers /\ \A k \in 1..(x - 1) : k \in DOMAIN buffers
    IN [handle |-> g, next |-> IF g >= nh THEN (g + 1) % HandleMod ELSE nh, panic |-> FALSE]

\* HostState::new_handle: the handle, the counter after it, and whether it panics.
new_handle(nh) ==
    [handle |-> nh, next |-> (nh + 1) % HandleMod, panic |-> ((nh + 1) % HandleMod = 0)]

\* A call returning Err(e): nothing of the table changes.
ReturnErr(call, e) ==
    /\ last' = [call EXCEPT !.res = e]
    /\ UNCHANGED <<buffers, matrix_dims, next_handle, fault, issued>>

\* A call that panics (or runs into undefined behaviour) with cause f.
Trap(call, f) ==
    /\ last' = [call EXCEPT !.res = "Trap"]
    /\ fault' = f
    /\ UNCHANGED <<buffers, matrix_dims, next_handle, issued>>

\* vec![0u8; n] for n above isize::MAX panics ("capacity overflow"), after
\* new_handle has advanced the counter.
TrapCapacity(call, nh) ==
    /\ last' = [call EXCEPT !.res = "Trap"]
    /\ fault' = "panic:capacity_overflow"
    /\ next_handle' = nh.next
    /\ UNCHANGED <<buffers, matrix_dims, issued>>

\* A call whose new_handle panics: the counter has already wrapped.
TrapOverflow(call, nh) ==
    /\ last' = [call EXCEPT !.res = "Trap"]
    /\ fault' = "panic:handle_overflow"
    /\ next_handle' = nh.next
    /\ UNCHANGED <<buffers, matrix_dims, issued>>

\* allocate_buffer that takes its handle before it looks at the size.
allocate_buffer_handle_first(size) ==
    LET call == [NoCall EXCEPT !.op = "allocate", !.len = size]
        nh == new_handle(next_handle)
    IN /\ fault = "none"
       /\ IF nh.panic THEN TrapOverflow(call, nh)
          ELSE IF size = 0
               THEN /\ last' = [call EXCEPT !.res = "Other"]
                    /\ next_handle' = nh.next
                    /\ UNCHANGED <<buffers, matrix_dims, fault, issued>>
          ELSE IF size % UsizeMod > IsizeMax THEN TrapCapacity(call, nh)
          ELSE /\ buffers' = Insert(buffers, nh.handle, Zeros(size % UsizeMod))
               /\ next_handle' = nh.next
               /\ issued' = issued \cup {nh.handle}
               /\ last' = [call EXCEPT !.res = "Ok", !.rh = nh.handle]
               /\ UNCHANGED <<matrix_dims, fault>>

allocate_buffer(size) ==
    LET call == [NoCall EXCEPT !.op = "allocate", !.len = size]
        nh == new_handle(next_handle)
    IN /\ fault = "none"
       /\ IF size = 0 THEN ReturnErr(call, "Other")
          ELSE IF nh.panic THEN TrapOverflow(call, nh)
          ELSE IF size % UsizeMod > IsizeMax THEN TrapCapacity(call, nh)
          ELSE /\ buffers' = Insert(buffers, nh.handle, Zeros(size % UsizeMod))
               /\ next_handle' = nh.next
               /\ issued' = issued \cup {nh.handle}
               /\ last' = [call EXCEPT !.res = "Ok", !.rh = nh.handle]
               /\ UNCHANGED <<matrix_dims, fault>>

\* free_buffer that leaves the shape of h behind.
free_buffer_keeps_shape(h) ==
    LET call == [NoCall EXCEPT !.op = "free", !.h = h]
    IN /\ fault = "none"
       /\ IF h \in DOMAIN buffers
          THEN /\ buffers' = Remove(buffers, h)
               /\ last' = [call EXCEPT !.res = "Ok",
                                       !.removed = IF h \in DOMAIN matrix_dims
                                                   THEN matrix_dims[h] ELSE <<>>]
               /\ UNCHANGED <<matrix_dims, next_handle, fault, issued>>
          ELSE ReturnErr(call, "InvalidHandle")

\* free_buffer that reports success for a handle without a buffer.
free_buffer_idempotent(h) ==
    LET call == [NoCall EXCEPT !.op = "free", !.h = h]
    IN /\ fault = "none"
       /\ buffers' = Remove(buffers, h)
       /\ matrix_dims' = Remove(matrix_dims, h)
       /\ last' = [call EXCEPT !.res = "Ok",
                               !.removed = IF h \in DOMAIN matrix_dims
                                           THEN matrix_dims[h] ELSE <<>>]
       /\ UNCHANGED <<next_handle, fault, issued>>

free_buffer(h) ==
    LET call == [NoCall EXCEPT !.op = "free", !.h = h]
    IN /\ fault = "none"
       /\ IF h \in DOMAIN buffers
          THEN /\ buffers' = Remove(buffers, h)
               /\ matrix_dims' = Remove(matrix_dims, h)
               /\ last' = [call EXCEPT !.res = "Ok",
                                       !.removed = IF h \in DOMAIN matrix_dims
                                                   THEN matrix_dims[h] ELSE <<>>]
               /\ UNCHANGED <<next_handle, fault, issued>>
          ELSE ReturnErr(call, "InvalidHandle")

write_to_host(guest_bytes, target_handle, target_offset) ==
    LET call == [NoCall EXCEPT !.op = "write", !.h = target_handle,
                               !.off = target_offset, !.data = guest_bytes]
    IN /\ fault = "none"
       /\ IF target_handle \notin DOMAIN buffers THEN ReturnErr(call, "InvalidHandle")
          ELSE LET buffer == buffers[target_handle]
                   offset == target_offset % UsizeMod
                   end == (offset + Len(guest_bytes)) % UsizeMod
               IN IF end > Len(buffer) THEN ReturnErr(call, "CopyOutOfBounds")
                  ELSE IF offset > end THEN Trap(call, "panic:slice_index")
                  ELSE /\ buffers' = [buffers EXCEPT
                                         ![target_handle] = CopyIn(buffer, offset, guest_bytes)]
                       /\ last' = [call EXCEPT !.res = "Ok"]
                       /\ UNCHANGED <<matrix_dims, next_handle, fault, issued>>

read_from_host(source_handle, source_offset, len) ==
    LET call == [NoCall EXCEPT !.op = "read", !.h = source_handle,
                               !.off = source_offset, !.len = len]
    IN /\ fault = "none"
       /\ IF source_handle \notin DOMAIN buffers THEN ReturnErr(call, "InvalidHandle")
          ELSE LET buffer == buffers[source_handle]
                   offset == source_offset % UsizeMod
                   read_len == len % UsizeMod
                   end == (offset + read_len) % UsizeMod
               IN IF end > Len(buffer) THEN ReturnErr(call, "CopyOutOfBounds")
                  ELSE IF offset > end THEN Trap(call, "panic:slice_index")
                  ELSE /\ last' = [call EXCEPT !.res = "Ok",
                                               !.rbytes = Slice(buffer, offset, end)]
                       /\ UNCHANGED <<buffers, matrix_dims, next_handle, fault, issued>>

\* register_matrix_dimensions that keeps a shape registered earlier.
register_matrix_dimensions_keeps_first(h, rows, cols) ==
    LET call == [NoCall EXCEPT !.op = "register", !.h = h, !.rows = rows, !.cols = cols]
    IN /\ fault = "none"
       /\ IF h \notin DOMAIN buffers THEN ReturnErr(call, "InvalidHandle")
          ELSE /\ matrix_dims' = IF h \in DOMAIN matrix_dims THEN matrix_dims
                                 ELSE Insert(matrix_dims, h, <<rows, cols>>)
               /\ last' = [call EXCEPT !.res = "Ok"]
               /\ UNCHANGED <<buffers, next_handle, fault, issued>>

register_matrix_dimensions(h, rows, cols) ==
    LET call == [NoCall EXCEPT !.op = "register", !.h = h, !.rows = rows, !.cols = cols]
    IN /\ fault = "none"
       /\ IF h \notin DOMAIN buffers THEN ReturnErr(call, "InvalidHandle")
          ELSE /\ matrix_dims' = Insert(matrix_dims, h, <<rows, cols>>)
               /\ last' = [call EXCEPT !.res = "Ok"]
               /\ UNCHANGED <<buffers, next_handle, fault, issued>>

\* get_matrix_dimensions that answers (0, 0) for a live handle without a shape.
get_matrix_dimensions_default(h) ==
    LET call == [NoCall EXCEPT !.op = "get_dims", !.h = h]
    IN /\ fault = "none"
       /\ IF h \in DOMAIN matrix_dims
          THEN /\ last' = [call EXCEPT !.res = "Ok", !.rdims = matrix_dims[h]]
               /\ UNCHANGED <<buffers, matrix_dims, next_handle, fault, issued>>
          ELSE IF h \in DOMAIN buffers
               THEN /\ last' = [call EXCEPT !.res = "Ok", !.rdims = <<0, 0>>]
                    /\ UNCHANGED <<buffers, matrix_dims, next_handle, fault, issued>>
          ELSE ReturnErr(call, "InvalidHandle")

get_matrix_dimensions(h) ==
    LET call == [NoCall EXCEPT !.op = "get_dims", !.h = h]
    IN /\ fault = "none"
       /\ IF h \in DOMAIN matrix_dims
          THEN /\ last' = [call EXCEPT !.res = "Ok", !.rdims = matrix_dims[h]]
               /\ UNCHANGED <<buffers, matrix_dims, next_handle, fault, issued>>
          ELSE ReturnErr(call, "InvalidHandle")

\* One operand of matrix_multiply_f32: its shape, buffer, cast and length check.
\* stage "ok" carries the decoded floats; "err" the error returned; "bad_slice"
\* means from_row_slice is called with a slice that is not rows * cols long.
Operand(h) ==
    IF h \notin DOMAIN matrix_dims THEN [stage |-> "err", err |-> "InvalidHandle"]
    ELSE IF h \notin DOMAIN buffers THEN [stage |-> "err", err |-> "InvalidHandle"]
    ELSE LET rows == matrix_dims[h][1]
             cols == matrix_dims[h][2]
             cast == bytes_to_f32_slice(buffers[h])
         IN IF ~cast.some THEN [stage |-> "err", err |-> "Other"]
            ELSE IF Len(cast.data) # ((rows * cols) % U32Mod) % UsizeMod
                 THEN [stage |-> "err", err |-> "Other"]
            ELSE IF Len(cast.data) # rows * cols THEN [stage |-> "bad_slice"]
            ELSE [stage |-> "ok", rows |-> rows, cols |-> cols, data |-> cast.data]

\* The floats of matrix_c.as_slice() for operands that passed their checks.
ProductSlice(A, B) ==
    as_slice(MatMul(from_row_slice(A.rows, A.cols, A.data),
                    from_row_slice(B.rows, B.cols, B.data),
                    A.rows, A.cols, B.cols),
             A.rows, B.cols)

\* The inner dimensions of the operands, taken for the shape of the product.
ResultDims_inner(A, B) == <<A.cols, B.rows>>

\* (matrix_c.nrows(), matrix_c.ncols()): the shape of the product.
ResultDims(A, B) == <<A.rows, B.cols>>

\* The floats that entry n of matrix_c.as_slice() is computed from: a row of A
\* and a column of B.
EntryOperands(A, B, n) ==
    LET i == (n - 1) % A.rows
        j == (n - 1) \div A.rows
    IN {A.data[i * A.cols + k + 1] : k \in 0..(A.cols - 1)}
           \cup {B.data[k * B.cols + j + 1] : k \in 0..(B.rows - 1)}

\* The bits a NaN result may have: either sign, and as fraction the quiet bit
\* alone or the fraction of a NaN operand, as it is or with the quiet bit set.
NaNOutcomes(operands) ==
    LET fractions == {2^22} \cup UNION {{f.m, (f.m % 2^22) + 2^22} :
                                            f \in {g \in operands : IsNaN(g)}}
    IN {[s |-> s, e |-> 255, m |-> m] : s \in {0, 1}, m \in fractions}

RECURSIVE ProductOutcomesUpTo(_, _, _, _)
ProductOutcomesUpTo(C, A, B, n) ==
    IF n = 0 THEN {<<>>}
    ELSE {Append(p, x) : p \in ProductOutcomesUpTo(C, A, B, n - 1),
                         x \in IF IsNaN(C[n]) THEN NaNOutcomes(EntryOperands(A, B, n))
                                              ELSE {C[n]}}

\* The float sequences matrix_c.as_slice() may be: the product, each NaN of
\* which has one of the bit patterns a NaN result may have.
ProductOutcomes(A, B) ==
    LET C == ProductSlice(A, B)
    IN IF \A n \in 1..Len(C) : ~IsNaN(C[n]) THEN {C}
       ELSE ProductOutcomesUpTo(C, A, B, Len(C))

\* The product stage with new_handle called before the dimension check.
ProductInsert_handle_first(call, A, B) ==
    LET nh == new_handle(next_handle)
    IN IF nh.panic THEN TrapOverflow(call, nh)
       ELSE IF A.cols # B.rows
            THEN /\ last' = [call EXCEPT !.res = "DimensionMismatch"]
                 /\ next_handle' = nh.next
                 /\ UNCHANGED <<buffers, matrix_dims, fault, issued>>
       ELSE /\ \E floats \in ProductOutcomes(A, B) :
                   buffers' = Insert(buffers, nh.handle, f32_slice_to_bytes(floats))
            /\ matrix_dims' = Insert(matrix_dims, nh.handle, ResultDims(A, B))
            /\ next_handle' = nh.next
            /\ issued' = issued \cup {nh.handle}
            /\ last' = [call EXCEPT !.res = "Ok", !.rh = nh.handle]
            /\ UNCHANGED fault

\* The product stage with the product's bytes stored under handle_a.
ProductInsert_stores_under_a(call, A, B) ==
    LET nh == new_handle(next_handle)
    IN IF A.cols # B.rows THEN ReturnErr(call, "DimensionMismatch")
       ELSE IF nh.panic THEN TrapOverflow(call, nh)
       ELSE /\ \E floats \in ProductOutcomes(A, B) :
                   buffers' = Insert(buffers, call.h, f32_slice_to_bytes(floats))
            /\ matrix_dims' = Insert(matrix_dims, nh.handle, ResultDims(A, B))
            /\ next_handle' = nh.next
            /\ issued' = issued \cup {nh.handle}
            /\ last' = [call EXCEPT !.res = "Ok", !.rh = nh.handle]
            /\ UNCHANGED fault

\* matrix_multiply_f32 from the dimension check on, for operands A and B that
\* passed their checks: the product, its handle, its buffer and its shape.
ProductInsert(call, A, B) ==
    LET nh == new_handle(next_handle)
    IN IF A.cols # B.rows THEN ReturnErr(call, "DimensionMismatch")
       ELSE IF nh.panic THEN TrapOverflow(call, nh)
       ELSE /\ \E floats \in ProductOutcomes(A, B) :
                   buffers' = Insert(buffers, nh.handle, f32_slice_to_bytes(floats))
            /\ matrix_dims' = Insert(matrix_dims, nh.handle, ResultDims(A, B))
            /\ next_handle' = nh.next
            /\ issued' = issued \cup {nh.handle}
            /\ last' = [call EXCEPT !.res = "Ok", !.rh = nh.handle]
            /\ UNCHANGED fault

\* Operand A or B was read with a shape that its slice does not fill.
TrapFromRowSlice(call) ==
    \E f \in {"panic:from_row_slice", "ub:from_row_slice"} : Trap(call, f)

matrix_multiply_f32(handle_a_, handle_b_) ==
    LET call == [NoCall EXCEPT !.op = "multiply", !.h = handle_a_, !.h2 = handle_b_]
        A == Operand(handle_a_)
        B == Operand(handle_b_)
    IN /\ fault = "none"
       /\ IF A.stage = "err" THEN ReturnErr(call, A.err)
          ELSE IF A.stage = "bad_slice" THEN TrapFromRowSlice(call)
          ELSE IF B.stage = "err" THEN ReturnErr(call, B.err)
          ELSE IF B.stage = "bad_slice" THEN TrapFromRowSlice(call)
          ELSE ProductInsert(call, A, B)

-----------------------------------------------------------------------------
(* Spec: any caller, any call.  The arguments are drawn from small sets    *)
(* that hold zero, in-range and out-of-range values of each width.         *)

HandleArgs == 1..(HandleMod - 2)
AllocSizes == {0, 1, SizeOfF32, UsizeMax, UsizeMod, UsizeMod + 1}
\* <<data, offset>>
WriteCalls ==
    {<< <<>>, 0 >>, << <<7>>, 1 >>, << F32Bytes(1), 0 >>, << F32Bytes(1), 1 >>,
     << <<7>>, UsizeMax >>, << <<7, 7>>, UsizeMax >>, << <<7>>, UsizeMod + 1 >>,
     << <<7>>, U64Max >>}
\* <<offset, len>>
ReadCalls ==
    {<<0, 0>>, <<0, 1>>, <<1, 1>>, <<0, SizeOfF32>>, <<1, SizeOfF32>>,
     <<UsizeMax, 1>>, <<UsizeMod, 1>>, <<0, UsizeMod>>, <<0, UsizeMod + 1>>}
Shapes == {<<1, 1>>, <<0, 1>>, <<U32Max, U32Max>>}

Live == DOMAIN buffers

\* The callers that may be inside the component at the same time.
Callers == {1, 2}

\* A caller that is not in a call.
NotCalling ==
    [pc |-> "idle", op |-> "none", h |-> 0, h2 |-> 0,
     A |-> [stage |-> "none"], B |-> [stage |-> "none"]]

\* HOST_STATE's mutex is free and no caller is in a call.
LockIdle ==
    /\ lock = 0
    /\ callers = [t \in Callers |-> NotCalling]

\* The driver is not running.
DriverIdle ==
    /\ pc = "idle"
    /\ handle_a = 0
    /\ handle_b = 0
    /\ handle_c = 0
    /\ run_result = "none"

Allocate ==
    /\ Cardinality(Live) < MaxLive
    /\ \E size \in AllocSizes : allocate_buffer(size)
    /\ UNCHANGED <<dvars, lvars>>

Free == (\E h \in HandleArgs : free_buffer(h)) /\ UNCHANGED <<dvars, lvars>>

Write ==
    /\ \E w \in WriteCalls, h \in HandleArgs : write_to_host(w[1], h, w[2])
    /\ UNCHANGED <<dvars, lvars>>

Read ==
    /\ \E r \in ReadCalls, h \in HandleArgs : read_from_host(h, r[1], r[2])
    /\ UNCHANGED <<dvars, lvars>>

RegisterShape ==
    /\ \E h \in HandleArgs, d \in Shapes : register_matrix_dimensions(h, d[1], d[2])
    /\ UNCHANGED <<dvars, lvars>>

GetShape == (\E h \in HandleArgs : get_matrix_dimensions(h)) /\ UNCHANGED <<dvars, lvars>>

Multiply ==
    /\ \E a \in HandleArgs, b \in HandleArgs : matrix_multiply_f32(a, b)
    /\ Cardinality(DOMAIN buffers') <= MaxLive
    /\ UNCHANGED <<dvars, lvars>>

Init == HostStateNew /\ DriverIdle /\ LockIdle

Next == Allocate \/ Free \/ Write \/ Read \/ RegisterShape \/ GetShape \/ Multiply

Spec == Init /\ [][Next]_vars

-----------------------------------------------------------------------------
(* SpecDriver: run_matrix_example of the guest (wasm-module/src/main.rs),  *)
(* one step per host call, on a fresh table.  The guest has no call that   *)
(* registers a shape; its comments assume the host's matrix_dims "is       *)
(* somehow correctly populated", so here another caller of the table may   *)
(* register a shape for any handle at any time.                            *)

a_data == <<F32Of(1), F32Of(2), F32Of(3), F32Of(4), F32Of(5), F32Of(6)>>
rows_a == 2
cols_a == 3
b_data == <<F32Of(7), F32Of(8), F32Of(9), F32Of(10), F32Of(11), F32Of(12)>>
rows_b == 3
cols_b == 2
expected_c_data == <<F32Of(58), F32Of(64), F32Of(139), F32Of(154)>>

\* f32_slice_to_bytes of the guest: the floats' bytes, copied as they lie.
guest_f32_slice_to_bytes(floats) == f32_slice_to_bytes(floats)

\* bytes_to_f32_vec of the guest: None unless a multiple of four bytes long.
bytes_to_f32_vec(bytes) ==
    IF Len(bytes) % SizeOfF32 # 0 THEN [some |-> FALSE, data |-> <<>>]
    ELSE [some |-> TRUE,
          data |-> [n \in 1..(Len(bytes) \div SizeOfF32) |->
                        F32Value(SubSeq(bytes, SizeOfF32 * (n - 1) + 1, SizeOfF32 * n))]]

\* byte_len of allocate_and_write_matrix
byte_len(data) == (Len(data) * SizeOfF32) % U64Mod

\* c_buffer_len: computed in u32 from dims_c, which the driver has just
\* checked to be (rows_a, cols_b).
c_buffer_len == (rows_a * cols_b * SizeOfF32) % U32Mod

\* A `?` on a failed host call returns Err from run_matrix_example at once;
\* a trap ends the guest's call in the runner.
Bail ==
    /\ pc' = IF last'.res = "Trap" THEN "trapped" ELSE "done"
    /\ run_result' = IF last'.res = "Trap" THEN "Trap" ELSE "Err"

DriverStart ==
    /\ pc = "alloc_a"
    /\ handle_a = 0
    /\ handle_b = 0
    /\ handle_c = 0
    /\ run_result = "none"

\* allocate_and_write_matrix: ha::allocate_buffer(byte_len)
DrvAllocate ==
    /\ pc \in {"alloc_a", "alloc_b"}
    /\ allocate_buffer(byte_len(IF pc = "alloc_a" THEN a_data ELSE b_data))
    /\ handle_a' = IF pc = "alloc_a" /\ last'.res = "Ok" THEN last'.rh ELSE handle_a
    /\ handle_b' = IF pc = "alloc_b" /\ last'.res = "Ok" THEN last'.rh ELSE handle_b
    /\ IF last'.res = "Ok"
       THEN /\ pc' = (IF pc = "alloc_a" THEN "write_a" ELSE "write_b")
            /\ UNCHANGED run_result
       ELSE Bail
    /\ UNCHANGED handle_c
    /\ UNCHANGED lvars

\* allocate_and_write_matrix: ha::write_to_host(matrix_bytes, handle, 0)
DrvWrite ==
    /\ pc \in {"write_a", "write_b"}
    /\ IF pc = "write_a"
       THEN write_to_host(guest_f32_slice_to_bytes(a_data), handle_a, 0)
       ELSE write_to_host(guest_f32_slice_to_bytes(b_data), handle_b, 0)
    /\ IF last'.res = "Ok"
       THEN /\ pc' = (IF pc = "write_a" THEN "alloc_b" ELSE "multiply")
            /\ UNCHANGED run_result
       ELSE Bail
    /\ UNCHANGED <<handle_a, handle_b, handle_c>>
    /\ UNCHANGED lvars

\* ha::matrix_multiply_f32(handle_a, handle_b)
DrvMultiply ==
    /\ pc = "multiply"
    /\ matrix_multiply_f32(handle_a, handle_b)
    /\ handle_c' = IF last'.res = "Ok" THEN last'.rh ELSE handle_c
    /\ IF last'.res = "Ok"
       THEN pc' = "get_dims" /\ UNCHANGED run_result
       ELSE Bail
    /\ UNCHANGED <<handle_a, handle_b>>
    /\ UNCHANGED lvars

\* ha::get_matrix_dimensions(handle_c) and the check of dims_c
DrvGetDims ==
    /\ pc = "get_dims"
    /\ get_matrix_dimensions(handle_c)
    /\ IF last'.res = "Ok"
       THEN /\ pc' = (IF last'.rdims # <<rows_a, cols_b>> THEN "cleanup_a" ELSE "read_c")
            /\ UNCHANGED run_result
       ELSE Bail
    /\ UNCHANGED <<handle_a, handle_b, handle_c>>
    /\ UNCHANGED lvars

\* ha::read_from_host(handle_c, 0, c_buffer_len), bytes_to_f32_vec and the
\* comparison with expected_c_data
DrvRead ==
    /\ pc = "read_c"
    /\ read_from_host(handle_c, 0, c_buffer_len)
    /\ IF last'.res = "Ok"
       THEN LET c_data == bytes_to_f32_vec(last'.rbytes)
            IN IF ~c_data.some
               THEN pc' = "done" /\ run_result' = "Err"
               ELSE /\ pc' = (IF VecEq(c_data.data, expected_c_data) THEN "free_a" ELSE "cleanup_a")
                    /\ UNCHANGED run_result
       ELSE Bail
    /\ UNCHANGED <<handle_a, handle_b, handle_c>>
    /\ UNCHANGED lvars

\* ha::free_buffer: on the two clean-up paths (its result dropped by .ok(),
\* then Err is returned) and on the success path (its error returned by `?`).
DrvFree ==
    /\ pc \in {"cleanup_a", "cleanup_b", "cleanup_c", "free_a", "free_b", "free_c"}
    /\ free_buffer(CASE pc \in {"cleanup_a", "free_a"} -> handle_a
                     [] pc \in {"cleanup_b", "free_b"} -> handle_b
                     [] OTHER -> handle_c)
    /\ IF last'.res = "Trap" THEN Bail
       ELSE IF pc \in {"cleanup_a", "cleanup_b"}
            THEN /\ pc' = (IF pc = "cleanup_a" THEN "cleanup_b" ELSE "cleanup_c")
                 /\ UNCHANGED run_result
       ELSE IF pc = "cleanup_c" THEN pc' = "done" /\ run_result' = "Err"
       ELSE IF last'.res # "Ok" THEN Bail
       ELSE IF pc = "free_c" THEN pc' = "done" /\ run_result' = "Ok"
       ELSE /\ pc' = (IF pc = "free_a" THEN "free_b" ELSE "free_c")
            /\ UNCHANGED run_result
    /\ UNCHANGED <<handle_a, handle_b, handle_c>>
    /\ UNCHANGED lvars

DriverShapes == {<<rows_a, cols_a>>, <<rows_b, cols_b>>, <<1, 6>>, <<6, 1>>, <<2, 2>>}

\* Another caller registers a shape.
OtherRegister ==
    /\ \E h \in HandleArgs, d \in DriverShapes : register_matrix_dimensions(h, d[1], d[2])
    /\ UNCHANGED <<dvars, lvars>>

InitDriver == HostStateNew /\ DriverStart /\ LockIdle

NextDriver ==
    DrvAllocate \/ DrvWrite \/ DrvMultiply \/ DrvGetDims \/ DrvRead \/ DrvFree \/ OtherRegister

SpecDriver == InitDriver /\ [][NextDriver]_vars

-----------------------------------------------------------------------------
(* SpecLock: the calls of Guest taken by several callers at once, one step *)
(* per access to HOST_STATE.  Every call locks HOST_STATE first and keeps  *)
(* the guard until it returns; matrix_multiply_f32 reads operand A, then   *)
(* operand B, then stores the product, all under the one guard.            *)

LockCalls ==
    {[op |-> "allocate", h |-> 0, h2 |-> 0]}
    \cup {[op |-> o, h |-> h, h2 |-> 0] : o \in {"free", "register"}, h \in HandleArgs}
    \cup {[op |-> "multiply", h |-> a, h2 |-> b] : a \in HandleArgs, b \in HandleArgs}

\* The caller t is between taking the guard and dropping it.
InCall(t) == callers[t].pc \in {"body", "mul_a", "mul_b", "mul_c", "ret"}

\* A lock that is handed to whoever asks for it.
lock_acquire_barging(t) == lock' = t

\* HOST_STATE.lock().unwrap(): blocks while another caller holds the guard.
lock_acquire(t) == lock = 0 /\ lock' = t

\* Where caller t stands after a step of its call.
AfterStep(t, next) ==
    callers' = [callers EXCEPT ![t].pc = IF last'.res = "Trap" THEN "trapped" ELSE next]

\* A caller enters one of the functions of Guest.
LockCall ==
    /\ fault = "none"
    /\ \E t \in Callers, c \in LockCalls :
          /\ callers[t].pc = "idle"
          /\ callers' = [callers EXCEPT ![t] =
                            [NotCalling EXCEPT !.pc = "wait", !.op = c.op, !.h = c.h, !.h2 = c.h2]]
    /\ UNCHANGED <<tvars, dvars, lock>>

\* let state = HOST_STATE.lock().unwrap();
LockAcquire ==
    /\ fault = "none"
    /\ \E t \in Callers :
          /\ callers[t].pc = "wait"
          /\ lock_acquire(t)
          /\ callers' = [callers EXCEPT
                            ![t].pc = IF callers[t].op = "multiply" THEN "mul_a" ELSE "body"]
    /\ UNCHANGED <<tvars, dvars>>

\* The body of allocate_buffer, free_buffer or register_matrix_dimensions.
LockBody ==
    /\ \E t \in Callers :
          /\ callers[t].pc = "body"
          /\ CASE callers[t].op = "allocate" -> allocate_buffer(SizeOfF32)
               [] callers[t].op = "free" -> free_buffer(callers[t].h)
               [] OTHER -> register_matrix_dimensions(callers[t].h, 1, 1)
          /\ AfterStep(t, "ret")
    /\ UNCHANGED <<dvars, lock>>

\* matrix_multiply_f32: the shape, buffer, cast and length check of one
\* operand, A first and then B.
LockMulOperand ==
    /\ fault = "none"
    /\ \E t \in Callers :
          LET c == callers[t]
              call == [NoCall EXCEPT !.op = "multiply", !.h = c.h, !.h2 = c.h2]
              X == Operand(IF c.pc = "mul_a" THEN c.h ELSE c.h2)
          IN /\ c.pc \in {"mul_a", "mul_b"}
             /\ IF X.stage = "err" THEN ReturnErr(call, X.err) /\ AfterStep(t, "ret")
                ELSE IF X.stage = "bad_slice"
                     THEN TrapFromRowSlice(call) /\ AfterStep(t, "ret")
                ELSE /\ callers' = [callers EXCEPT
                                       ![t] = IF c.pc = "mul_a"
                                              THEN [c EXCEPT !.pc = "mul_b", !.A = X]
                                              ELSE [c EXCEPT !.pc = "mul_c", !.B = X]]
                     /\ UNCHANGED tvars
    /\ UNCHANGED <<dvars, lock>>

\* matrix_multiply_f32: the dimension check, the product and its insertion.
LockMulProduct ==
    /\ fault = "none"
    /\ \E t \in Callers :
          LET c == callers[t]
              call == [NoCall EXCEPT !.op = "multiply", !.h = c.h, !.h2 = c.h2]
          IN /\ c.pc = "mul_c"
             /\ ProductInsert(call, c.A, c.B)
             /\ AfterStep(t, "ret")
    /\ UNCHANGED <<dvars, lock>>

\* The call returns and its guard is dropped.
LockRelease ==
    /\ fault = "none"
    /\ \E t \in Callers :
          /\ callers[t].pc = "ret"
          /\ lock' = 0
          /\ callers' = [callers EXCEPT ![t] = NotCalling]
    /\ UNCHANGED <<tvars, dvars>>

NextLock ==
    LockCall \/ LockAcquire \/ LockBody \/ LockMulOperand \/ LockMulProduct \/ LockRelease

SpecLock == Init /\ [][NextLock]_vars

-----------------------------------------------------------------------------
(* SpecMatrix: the calls of Guest on buffers that hold one or two floats,   *)
(* with the shapes that fit them or do not, so that a multiply meets every *)
(* one of its outcomes and its product can be an operand in turn.  The     *)
(* handle counter bounds the number of buffers.                            *)

MatrixSizes == {SizeOfF32, 2 * SizeOfF32}
\* <<data, offset>>
MatrixWrites == {<< F32Bytes(2), 0 >>}
\* <<offset, len>>
MatrixReads == {<<SizeOfF32, SizeOfF32>>}
MatrixShapes == {<<1, 1>>, <<1, 2>>, <<2, 1>>}

MatAllocate == (\E size \in MatrixSizes \cup {0} : allocate_buffer(size)) /\ UNCHANGED <<dvars, lvars>>

MatFree == (\E h \in HandleArgs : free_buffer(h)) /\ UNCHANGED <<dvars, lvars>>

MatWrite ==
    /\ \E w \in MatrixWrites, h \in HandleArgs : write_to_host(w[1], h, w[2])
    /\ UNCHANGED <<dvars, lvars>>

MatRead ==
    /\ \E r \in MatrixReads, h \in HandleArgs : read_from_host(h, r[1], r[2])
    /\ UNCHANGED <<dvars, lvars>>

MatRegister ==
    /\ \E h \in HandleArgs, d \in MatrixShapes : register_matrix_dimensions(h, d[1], d[2])
    /\ UNCHANGED <<dvars, lvars>>

MatGetShape == (\E h \in HandleArgs : get_matrix_dimensions(h)) /\ UNCHANGED <<dvars, lvars>>

MatMultiply ==
    /\ \E a \in HandleArgs, b \in HandleArgs : matrix_multiply_f32(a, b)
    /\ UNCHANGED <<dvars, lvars>>

NextMatrix ==
    MatAllocate \/ MatFree \/ MatWrite \/ MatRead \/ MatRegister \/ MatGetShape \/ MatMultiply

SpecMatrix == Init /\ [][NextMatrix]_vars

-----------------------------------------------------------------------------
(* Claims *)

\* The product of two checked operands, written row by row.
RowMajorProduct(A, B) ==
    LET C == MatMul(from_row_slice(A.rows, A.cols, A.data),
                    from_row_slice(B.rows, B.cols, B.data),
                    A.rows, A.cols, B.cols)
    IN [n \in 1..(A.rows * B.cols) |-> C[(n - 1) \div B.cols, (n - 1) % B.cols]]

\* C1: after a successful multiply(a, b) the new handle's buffer holds the
\* r*c products sum_k A[i][k]*B[k][j] as f32 in row-major order; for the
\* driver's A (2x3) and B (3x2) it reads back as 58, 64, 139, 154.
C1_MultiplyRowMajor ==
    (last.op = "multiply" /\ last.res = "Ok") =>
        LET A == Operand(last.h)
            B == Operand(last.h2)
        IN /\ buffers[last.rh] = f32_slice_to_bytes(RowMajorProduct(A, B))
           /\ (/\ A.data = a_data /\ <<A.rows, A.cols>> = <<rows_a, cols_a>>
               /\ B.data = b_data /\ <<B.rows, B.cols>> = <<rows_b, cols_b>>)
              => bytes_to_f32_vec(buffers[last.rh]).data = expected_c_data

\* C2: a write to a live handle with offset + len(data) beyond the buffer's
\* length (as an unbounded sum) fails with an out-of-bounds error and
\* leaves every buffer as it was.
C2_WriteOutOfBounds ==
    [][(/\ last'.op = "write"
        /\ last'.h \in DOMAIN buffers
        /\ last'.off + Len(last'.data) > Len(buffers[last'.h]))
       => (last'.res = "CopyOutOfBounds" /\ buffers' = buffers)]_vars

\* C3: a read of a live handle with offset + len beyond the buffer's length
\* (as an unbounded sum) fails with an out-of-bounds error and returns no
\* bytes.
C3_ReadOutOfBounds ==
    (/\ last.op = "read"
     /\ last.h \in DOMAIN buffers
     /\ last.off + last.len > Len(buffers[last.h]))
    => (last.res = "CopyOutOfBounds" /\ last.rbytes = <<>>)

\* The handles the driver has obtained so far.
Obtained == {handle_a, handle_b, handle_c} \ {0}

\* C4: when the driver has returned, on the success path and on every
\* error path, none of the handles it obtained is still live.
C4_DriverFreesAll == (pc = "done") => (Obtained \cap DOMAIN buffers = {})

\* C5: the driver's multiply(A, B) runs only after a shape has been
\* registered for A and for B.
C5_RegisterBeforeMultiply ==
    [][(pc = "multiply" /\ pc' # "multiply")
       => ({handle_a, handle_b} \subseteq DOMAIN matrix_dims)]_vars

\* C6: short of handle-counter exhaustion, no table operation panics or
\* traps: each returns success or an error.
C6_NoPanic == fault \in {"none", "panic:handle_overflow"}

\* C7: a successful allocate(size) creates a buffer of exactly size zero
\* bytes, and a read(h, 0, size) right after it succeeds and returns size
\* zero bytes.
C7_AllocateZeroed ==
    [][/\ (last'.op = "allocate" /\ last'.res = "Ok")
          => buffers'[last'.rh] = Zeros(last'.len)
       /\ (/\ last.op = "allocate" /\ last.res = "Ok"
           /\ last'.op = "read" /\ last'.h = last.rh
           /\ last'.off = 0 /\ last'.len = last.len)
          => (last'.res = "Ok" /\ last'.rbytes = Zeros(last.len))]_vars

\* C8: multiply fails with the shape-mismatch error whenever its first
\* operand has a registered shape (rows, cols) and a buffer whose length is
\* not rows*cols*4 (the product unbounded), and so does it for the second
\* operand when the first one is consistent.
C8_ShapeMismatch ==
    LET has(h) == h \in DOMAIN matrix_dims /\ h \in DOMAIN buffers
        consistent(h) ==
            Len(buffers[h]) = matrix_dims[h][1] * matrix_dims[h][2] * SizeOfF32
    IN (last.op = "multiply" /\ has(last.h)) =>
          /\ ~consistent(last.h) => last.res = "Other"
          /\ (consistent(last.h) /\ has(last.h2) /\ ~consistent(last.h2))
                => last.res = "Other"

\* C9: the call that would make the handle counter wrap (allocate or
\* multiply) aborts and returns no handle, and every handle returned is one
\* that was never returned before.
C9_ExhaustionAborts ==
    [][/\ (last'.op \in {"allocate", "multiply"} /\ last'.res = "Ok")
          => (/\ last'.rh \notin issued
              /\ last'.rh = next_handle
              /\ next_handle' = next_handle + 1)
       /\ (next_handle = HandleMax /\ next_handle' # next_handle)
          => (/\ fault' = "panic:handle_overflow"
              /\ last'.res = "Trap"
              /\ last'.rh = 0
              /\ buffers' = buffers
              /\ issued' = issued)]_vars

\* The counter is exhausted and the call that hit it has trapped.
C9_Witness ==
    /\ fault = "panic:handle_overflow"
    /\ last.op \in {"allocate", "multiply"}
    /\ last.res = "Trap"
    /\ issued = 1..(HandleMax - 1)

\* C10: every handle with a registered shape has a live buffer; a
\* successful free(h) removes the buffer and the shape of h together, and
\* get_shape of a handle without a live buffer fails with InvalidHandle.
C10_ShapeOnlyForLive ==
    /\ DOMAIN matrix_dims \subseteq DOMAIN buffers
    /\ (last.op = "free" /\ last.res = "Ok")
          => (last.h \notin DOMAIN buffers /\ last.h \notin DOMAIN matrix_dims)
    /\ (last.op = "get_dims" /\ last.h \notin DOMAIN buffers)
          => last.res = "InvalidHandle"

\* A handle that had a shape registered has just been freed.
C10_Witness ==
    /\ last.op = "free"
    /\ last.res = "Ok"
    /\ last.removed # <<>>

\* C11: every handle returned by a successful allocate or multiply is
\* positive, greater than every handle returned before it (so distinct from
\* them, freed or not), and not the handle of any live buffer.
C11_HandlesIncrease ==
    [][(last'.op \in {"allocate", "multiply"} /\ last'.res = "Ok")
       => (/\ last'.rh > 0
           /\ \A g \in issued : g < last'.rh
           /\ last'.rh \notin DOMAIN buffers
           /\ last'.rh \in DOMAIN buffers')]_vars

\* A multiply has returned a handle after an earlier handle was freed.
C11_Witness ==
    /\ last.op = "multiply"
    /\ last.res = "Ok"
    /\ \E g \in issued : g < last.rh /\ g \notin DOMAIN buffers

\* C12: free, write, read, register_shape and get_shape of a handle that is
\* not live (never issued, or freed) fail with InvalidHandle, whatever the
\* other arguments, and leave the table as it was.
C12_NotLiveInvalid ==
    [][(/\ last'.op \in {"free", "write", "read", "register", "get_dims"}
        /\ last'.h \notin DOMAIN buffers)
       => (/\ last'.res = "InvalidHandle"
           /\ UNCHANGED <<buffers, matrix_dims, next_handle, fault>>)]_vars

\* A handle has been freed a second time while another buffer is live.
C12_Witness ==
    /\ last.op = "free"
    /\ last.res = "InvalidHandle"
    /\ last.h \in issued
    /\ DOMAIN buffers # {}

\* The shape registered for h fits the length of the buffer of h.
ShapeFitsBuffer(h) ==
    /\ h \in DOMAIN matrix_dims
    /\ h \in DOMAIN buffers
    /\ Len(buffers[h]) = matrix_dims[h][1] * matrix_dims[h][2] * SizeOfF32

\* C13: a multiply of two operands whose registered shapes fit their buffers
\* fails with DimensionMismatch whenever a.cols differs from b.rows, and
\* returns no handle.
C13_DimensionMismatch ==
    (/\ last.op = "multiply"
     /\ ShapeFitsBuffer(last.h)
     /\ ShapeFitsBuffer(last.h2)
     /\ matrix_dims[last.h][2] # matrix_dims[last.h2][1])
    => (last.res = "DimensionMismatch" /\ last.rh = 0)

\* C14: a successful multiply(a, b) returns a handle never returned before,
\* which is live and has the shape (a.rows, b.cols) of the shapes registered
\* for a and b at the call; get_shape of it right after returns that shape.
C14_ProductHandle ==
    [][/\ (last'.op = "multiply" /\ last'.res = "Ok")
          => (/\ last'.rh \notin issued
              /\ last'.rh \in DOMAIN buffers'
              /\ last'.rh \in DOMAIN matrix_dims'
              /\ matrix_dims'[last'.rh] =
                     <<matrix_dims[last'.h][1], matrix_dims[last'.h2][2]>>)
       /\ (/\ last.op = "multiply" /\ last.res = "Ok"
           /\ last'.op = "get_dims" /\ last'.h = last.rh)
          => (/\ last'.res = "Ok"
              /\ last'.rdims = <<matrix_dims[last.h][1], matrix_dims[last.h2][2]>>)]_vars

\* The driver's 2x3 by 3x2 multiply has returned a handle of shape 2x2.
C14_Witness ==
    /\ last.op = "multiply"
    /\ last.res = "Ok"
    /\ matrix_dims[last.h] = <<rows_a, cols_a>>
    /\ matrix_dims[last.h2] = <<rows_b, cols_b>>
    /\ matrix_dims[last.rh] = <<rows_a, cols_b>>

\* C15: a write of data at offset into a live buffer that holds offset +
\* len(data) bytes succeeds and puts data there, and a read of the same
\* handle, offset and length right after it returns exactly data.
C15_WriteReadRoundTrip ==
    [][/\ (/\ last'.op = "write"
           /\ last'.h \in DOMAIN buffers
           /\ last'.off + Len(last'.data) <= Len(buffers[last'.h]))
          => (/\ last'.res = "Ok"
              /\ SubSeq(buffers'[last'.h], last'.off + 1, last'.off + Len(last'.data))
                    = last'.data)
       /\ (/\ last.op = "write"
           /\ last.h \in DOMAIN buffers
           /\ last.off + Len(last.data) <= Len(buffers[last.h])
           /\ last'.op = "read"
           /\ last'.h = last.h
           /\ last'.off = last.off
           /\ last'.len = Len(last.data))
          => (last'.res = "Ok" /\ last'.rbytes = last.data)]_vars

\* A byte written at offset 1 has been read back from offset 1.
C15_Witness ==
    /\ last.op = "read"
    /\ last.res = "Ok"
    /\ last.off = 1
    /\ last.rbytes = <<7>>

\* C16: allocate(0) fails with the invalid-argument error (HostError::Other),
\* returns no handle and leaves the counter, the buffers and the shapes as
\* they were, so the next successful allocate returns the handle that follows
\* the handles issued before the failed call.
C16_AllocateZero ==
    [][/\ (last'.op = "allocate" /\ last'.len = 0)
          => (/\ last'.res = "Other"
              /\ last'.rh = 0
              /\ UNCHANGED <<buffers, matrix_dims, next_handle, issued, fault>>)
       /\ (/\ last.op = "allocate" /\ last.len = 0
           /\ last'.op = "allocate" /\ last'.res = "Ok")
          => (last'.rh = next_handle /\ last'.rh = Cardinality(issued) + 1)]_vars

\* allocate(0) has failed on a table that has issued handles.
C16_Witness ==
    /\ last.op = "allocate"
    /\ last.len = 0
    /\ last.res = "Other"
    /\ issued # {}
    /\ next_handle < HandleMax

\* C18: multiply applies its checks in a fixed order: a without a shape
\* gives InvalidHandle whatever b is; a with a shape that does not fit its
\* buffer gives the shape-mismatch error whatever b is; then the same two
\* checks for b; DimensionMismatch is returned only when both operands have
\* passed.
C18_CheckOrder ==
    LET a == last.h
        b == last.h2
        NoShape(h) == h \notin DOMAIN matrix_dims
        Misfit(h) == ~NoShape(h) /\ ~ShapeFitsBuffer(h)
    IN (last.op = "multiply") =>
          /\ NoShape(a) => last.res = "InvalidHandle"
          /\ Misfit(a) => last.res = "Other"
          /\ (ShapeFitsBuffer(a) /\ NoShape(b)) => last.res = "InvalidHandle"
          /\ (ShapeFitsBuffer(a) /\ Misfit(b)) => last.res = "Other"
          /\ (last.res = "DimensionMismatch")
                => (ShapeFitsBuffer(a) /\ ShapeFitsBuffer(b))

\* C19: register_shape on a live handle succeeds for every rows and cols,
\* whatever the buffer length and the shape registered before; it sets the
\* shape of that handle and no other; get_shape right after returns the
\* shape just registered; registering the same shape again changes nothing.
C19_RegisterOverwrites ==
    [][/\ (last'.op = "register" /\ last'.h \in DOMAIN buffers)
          => (/\ last'.res = "Ok"
              /\ DOMAIN matrix_dims' = DOMAIN matrix_dims \cup {last'.h}
              /\ matrix_dims'[last'.h] = <<last'.rows, last'.cols>>
              /\ \A g \in DOMAIN matrix_dims \ {last'.h} : matrix_dims'[g] = matrix_dims[g]
              /\ UNCHANGED <<buffers, next_handle, fault>>)
       /\ (/\ last.op = "register" /\ last.res = "Ok"
           /\ last'.op = "get_dims" /\ last'.h = last.h)
          => (last'.res = "Ok" /\ last'.rdims = <<last.rows, last.cols>>)
       /\ (/\ last.op = "register" /\ last.res = "Ok"
           /\ last'.op = "register" /\ last'.h = last.h
           /\ last'.rows = last.rows /\ last'.cols = last.cols)
          => (last'.res = "Ok" /\ matrix_dims' = matrix_dims)]_vars

\* A shape that does not fit the one-byte buffer of its handle has been
\* registered and get_shape has returned it.
C19_Witness ==
    /\ last.op = "get_dims"
    /\ last.res = "Ok"
    /\ last.rdims = <<U32Max, U32Max>>
    /\ Len(buffers[last.h]) = 1

\* C20: a live handle stays live and the length of its buffer stays the same
\* through every step other than a successful free of that handle.
C20_LengthFixed ==
    [][\A h \in DOMAIN buffers :
          ~(last'.op = "free" /\ last'.h = h /\ last'.res = "Ok")
             => (h \in DOMAIN buffers' /\ Len(buffers'[h]) = Len(buffers[h]))]_vars

\* Bytes have been written into one of two live buffers.
C20_Witness ==
    /\ last.op = "write"
    /\ last.res = "Ok"
    /\ last.data = <<7>>
    /\ Cardinality(DOMAIN buffers) = 2
    /\ Len(buffers[last.h]) = SizeOfF32

\* C17: with several callers, every call takes effect under the one lock:
\* at most one caller is inside a call, no step of another caller changes
\* the table while a caller is inside its call, the operands a multiply has
\* read are still in the table as it read them, and the multiply ends in
\* one step that is the whole matrix_multiply_f32 on the table of that step
\* (so it runs entirely before or entirely after a racing free).
C17_Linearizable ==
    [][\A t \in Callers :
          /\ InCall(t) => (lock = t /\ \A u \in Callers \ {t} : ~InCall(u))
          /\ (InCall(t) /\ callers'[t] = callers[t])
                => UNCHANGED <<buffers, matrix_dims, next_handle>>
          /\ callers[t].pc \in {"mul_b", "mul_c"} => Operand(callers[t].h) = callers[t].A
          /\ callers[t].pc = "mul_c" => Operand(callers[t].h2) = callers[t].B
          /\ (/\ callers[t].pc \in {"mul_a", "mul_b", "mul_c"}
              /\ callers'[t].pc \in {"ret", "trapped"})
                => matrix_multiply_f32(callers[t].h, callers[t].h2)]_vars

\* A multiply has read its first operand while a free of that operand waits
\* for the lock.
C17_Witness ==
    \E t \in Callers, u \in Callers :
        /\ callers[t].pc = "mul_b"
        /\ callers[t].A.stage = "ok"
        /\ callers[u].pc = "wait"
        /\ callers[u].op = "free"
        /\ callers[u].h = callers[t].h

\* C21: a successful write(data, h, offset) changes no byte of the buffer of
\* h outside [offset, offset + len(data)), no other buffer, no shape and not
\* the handle counter.
C21_WriteFrame ==
    [][(last'.op = "write" /\ last'.res = "Ok")
       => (/\ DOMAIN buffers' = DOMAIN buffers
           /\ Len(buffers'[last'.h]) = Len(buffers[last'.h])
           /\ \A i \in 1..Len(buffers[last'.h]) :
                 (i <= last'.off \/ i > last'.off + Len(last'.data))
                    => buffers'[last'.h][i] = buffers[last'.h][i]
           /\ \A g \in DOMAIN buffers \ {last'.h} : buffers'[g] = buffers[g]
           /\ UNCHANGED <<matrix_dims, next_handle>>)]_vars

\* C22: get_shape of a handle without a registered shape fails with
\* InvalidHandle, for a live handle as for one that is not live, and
\* get_shape never changes the table.
C22_GetShapeUnregistered ==
    [][(last'.op = "get_dims")
       => (/\ last'.h \notin DOMAIN matrix_dims => last'.res = "InvalidHandle"
           /\ UNCHANGED <<buffers, matrix_dims, next_handle, fault, issued>>)]_vars

\* get_shape has failed for a live handle that has no shape.
C22_Witness ==
    /\ last.op = "get_dims"
    /\ last.res = "InvalidHandle"
    /\ last.h \in DOMAIN buffers
    /\ last.h \notin DOMAIN matrix_dims

\* The error kinds of HostError.
Errors == {"Other", "InvalidHandle", "CopyOutOfBounds", "DimensionMismatch"}

\* C23: a call that returns an error leaves the live handles, every buffer,
\* every shape and the handle counter as they were; after a failed multiply
\* the next successful allocate returns the handle that follows the handles
\* issued before it.
C23_ErrorsChangeNothing ==
    [][/\ (last'.res \in Errors)
          => UNCHANGED <<buffers, matrix_dims, next_handle, issued, fault>>
       /\ (/\ last.op = "multiply" /\ last.res \in Errors
           /\ last'.op = "allocate" /\ last'.res = "Ok")
          => (last'.rh = next_handle /\ last'.rh = Cardinality(issued) + 1)]_vars

\* A multiply of two fitting operands has failed with DimensionMismatch.
C23_Witness ==
    /\ last.op = "multiply"
    /\ last.res = "DimensionMismatch"
    /\ ShapeFitsBuffer(last.h)
    /\ ShapeFitsBuffer(last.h2)

\* C24: a successful multiply(a, b) adds one handle, the value of the
\* counter before the call, with a buffer and a shape, advances the counter
\* by one, and leaves every buffer and shape that was there, those of a and
\* b among them, as it was.
C24_MultiplyFrame ==
    [][(last'.op = "multiply" /\ last'.res = "Ok")
       => (/\ last'.rh = next_handle
           /\ next_handle' = next_handle + 1
           /\ last'.rh \notin DOMAIN buffers
           /\ DOMAIN buffers' = DOMAIN buffers \cup {last'.rh}
           /\ DOMAIN matrix_dims' = DOMAIN matrix_dims \cup {last'.rh}
           /\ \A g \in DOMAIN buffers : buffers'[g] = buffers[g]
           /\ \A g \in DOMAIN matrix_dims : matrix_dims'[g] = matrix_dims[g]
           /\ fault' = fault)]_vars

\* A 1x2 by 2x1 multiply of two different handles has stored its product.
C24_Witness ==
    /\ last.op = "multiply"
    /\ last.res = "Ok"
    /\ last.h # last.h2
    /\ matrix_dims[last.h] = <<1, 2>>
    /\ matrix_dims[last.h2] = <<2, 1>>
    /\ buffers[last.rh] = F32Bytes(4)

\* C25: the handle c of a successful multiply has rows >= 1, cols >= 1 and a
\* buffer of rows * cols * 4 bytes, so it passes the operand checks of
\* multiply: a multiply of c by c right after does not fail with the
\* shape-mismatch error or InvalidHandle, nor in from_row_slice.
C25_ProductFits ==
    [][/\ (last'.op = "multiply" /\ last'.res = "Ok")
          => (/\ matrix_dims'[last'.rh][1] >= 1
              /\ matrix_dims'[last'.rh][2] >= 1
              /\ Len(buffers'[last'.rh])
                    = matrix_dims'[last'.rh][1] * matrix_dims'[last'.rh][2] * SizeOfF32)
       /\ (last.op = "multiply" /\ last.res = "Ok")
          => Operand(last.rh).stage = "ok"
       /\ (/\ last.op = "multiply" /\ last.res = "Ok"
           /\ last'.op = "multiply" /\ last'.h = last.rh /\ last'.h2 = last.rh)
          => (/\ last'.res \in {"Ok", "DimensionMismatch", "Trap"}
              /\ fault' \in {"none", "panic:handle_overflow"})]_vars

\* The product of a multiply has been multiplied by itself.
C25_Witness ==
    /\ last.op = "multiply"
    /\ last.res = "Ok"
    /\ last.h = last.h2
    /\ buffers[last.h] = F32Bytes(4)
    /\ buffers[last.rh] = F32Bytes(16)

====
